---- MODULE Spec2Model ----
(***************************************************************************)
(* The visual comparison test of tests/visualTest.spec.js: the loop over   *)
(* config.staging.urls that captures a staging and a prod screenshot of    *)
(* every page, compares them (compareScreenshots) and collects one result  *)
(* per page, and generateHtmlReport, which counts, sorts and renders the   *)
(* results.                                                                *)
(*                                                                         *)
(* A page path and a file name are sequences of one-character strings.     *)
(* A raster is a record [exists, width, height, px]: an image whose first  *)
(* px pixels (row-major) are dark and whose other pixels are blank, so     *)
(* that pixelmatch of two rasters of one size counts |px1 - px2| pixels.   *)
(* A JavaScript value is a record [typ, num, str].  A similarity           *)
(* percentage p is kept as the integer p * PctScale, which is exact for    *)
(* every pixel count of the 1280x800 canvas.                               *)
(***************************************************************************)
EXTENDS Integers, Sequences, FiniteSets, TLC

\* Number of pages of config.staging.urls the run iterates (at most).
MaxPages == 2

\* Longest result array handed to generateHtmlReport under ReportSpec.
MaxResults == 5

\* Longest page path of a list drawn under PathSpec.
MaxPathLen == 3

\* Canonical canvas of compareScreenshots.
CanvasWidth == 1280
CanvasHeight == 800

\* Pass threshold of generateHtmlReport, in percent.
PassThreshold == 95

\* A percentage p is stored as p * PctScale (1280 * 800 / 100 = 10240).
PctScale == (CanvasWidth * CanvasHeight) \div 100

\* config.staging.urls (entries of the list, in its order).
ConfigUrls ==
  << <<"/">>,
     <<"/", "a", "b", "o", "u", "t", "/">>,
     <<"/", "a", "p", "p", "l", "y", "/">>,
     <<"/", "d", "e", "g", "r", "e", "e", "s", "/">>,
     <<"/", "t", "u", "i", "t", "i", "o", "n", "/">>,
     <<"/", "a", "p", "p", "l", "y">> >>

Range(s) == {s[k] : k \in DOMAIN s}

Abs(n) == IF n < 0 THEN -n ELSE n

\* ------------------------------------------------------------ JS values

Num(n) == [typ |-> "number", num |-> n, str |-> ""]
Str(s) == [typ |-> "string", num |-> 0, str |-> s]
Undefined == [typ |-> "undefined", num |-> 0, str |-> ""]

typeof(v) == v.typ

\* ------------------------------------------------------------ file system

Dirs == {"staging", "prod", "diff"}

\* pagePath.replace(/\//g, "_")
ReplaceSlashes(pagePath) ==
  [k \in DOMAIN pagePath |-> IF pagePath[k] = "/" THEN "_" ELSE pagePath[k]]

\* path.join(baseDir, dir, `${pagePath.replace(/\//g, "_")}.png`)
ScreenshotPath(dir, pagePath) == [dir |-> dir, name |-> ReplaceSlashes(pagePath)]

stagingScreenshotPath(pagePath) == ScreenshotPath("staging", pagePath)

prodScreenshotPathSwapped(pagePath) == ScreenshotPath("staging", pagePath)

prodScreenshotPath(pagePath) == ScreenshotPath("prod", pagePath)

diffScreenshotPath(pagePath) == ScreenshotPath("diff", pagePath)

FilePaths == {ScreenshotPath(d, p) : d \in Dirs, p \in Range(ConfigUrls)}

NoFile == [exists |-> FALSE, width |-> 0, height |-> 0, px |-> 0]

Raster(w, h, px) == [exists |-> TRUE, width |-> w, height |-> h, px |-> px]

\* What page.screenshot({fullPage: true}) can write: the viewport is 1280 wide,
\* the page at least 800 high.  Resized to the canvas the second raster has
\* 51201 dark pixels: one more than 5% of the canvas.
Screens ==
  { Raster(CanvasWidth, CanvasHeight, 0),
    Raster(CanvasWidth, 2 * CanvasHeight, 204804) }

\* A capture and a diff mask left in the directories by an earlier run (the
\* capture has 5% of the canvas dark).
OldCapture == Raster(CanvasWidth, CanvasHeight, 51200)
OldDiff == Raster(CanvasWidth, CanvasHeight, 0)

\* What an earlier run can have left for one page: nothing, both captures
\* (the comparison threw), or both captures and their diff mask.
StaleKinds == {"none", "captures", "all"}

StaleFile(kind, dir) ==
  CASE dir \in {"staging", "prod"} ->
         IF kind \in {"captures", "all"} THEN OldCapture ELSE NoFile
    [] OTHER -> IF kind = "all" THEN OldDiff ELSE NoFile

\* fs.existsSync
existsSync(files, f) == files[f].exists

\* Messages of the errors the collaborators throw.
CaptureErrors == {"Timeout 60000ms exceeded"}
ResizeErrors == {"Input image exceeds pixel limit"}
DiffErrors == {"ENOSPC: no space left on device, write"}

VARIABLES
  urls,        \* config.staging.urls, the pages of this run
  fs,          \* the files under screenshots/Desktop/, by [dir, name]
  written,     \* how many times this run wrote each file
  console,     \* the failures captureScreenshot logged with console.error
  results,     \* the results array of the test
  i,           \* index in urls of the page the loop is at
  pc,          \* where the test function is
  report,      \* the report generateHtmlReport wrote
  testStatus   \* outcome of the test

vars == <<urls, fs, written, console, results, i, pc, report, testStatus>>

NoReport == [exists |-> FALSE, passed |-> 0, failed |-> 0, errors |-> 0, rows |-> <<>>]

pagePath == urls[i]

\* State at the start of the for loop: the directories exist and may hold the
\* files of an earlier run (they are created when missing, never emptied).
Init ==
  /\ \E n \in 1..MaxPages : urls = SubSeq(ConfigUrls, 1, n)
  /\ \E stale \in [1..MaxPages -> StaleKinds] :
       fs = [f \in FilePaths |->
               IF \E k \in 1..Len(urls) : f.name = ReplaceSlashes(urls[k])
               THEN StaleFile(stale[CHOOSE k \in 1..Len(urls) : f.name = ReplaceSlashes(urls[k])], f.dir)
               ELSE NoFile]
  /\ written = [f \in FilePaths |-> 0]
  /\ console = {}
  /\ results = <<>>
  /\ i = 1
  /\ pc = "captureStaging"
  /\ report = NoReport
  /\ testStatus = "running"

\* ------------------------------------------------------------ images

\* sharp(buffer).resize(width, height, {fit: "contain", ...}): the content is
\* scaled to fit inside width x height and padded, the output is width x height.
resizeKeepSize(img, width, height) ==
  Raster(img.width, img.height, img.px)

resize(img, width, height) ==
  LET widthLimited == width * img.height <= height * img.width
      scaledW == IF widthLimited THEN width ELSE (img.width * height) \div img.height
      scaledH == IF widthLimited THEN (img.height * width) \div img.width ELSE height
      srcArea == img.width * img.height
      dstArea == scaledW * scaledH
  IN Raster(width, height,
            IF srcArea >= dstArea
            THEN img.px \div (srcArea \div dstArea)
            ELSE img.px * (dstArea \div srcArea))

\* pixelmatch(img1.data, img2.data, ...): the number of mismatched pixels.
pixelmatch(img1, img2) == Abs(img1.px - img2.px)

\* (matchedPixels / totalPixels) * 100, times PctScale.
Percentage(matchedPixels, totalPixels) ==
  (matchedPixels * 100) \div (totalPixels \div PctScale)

\* compareScreenshots from the dimension check on: the value it returns.
similarityOfMismatched(img1, img2) ==
  IF img1.width # img2.width \/ img1.height # img2.height
  THEN Str("Size mismatch")
  ELSE Num(Percentage(pixelmatch(img1, img2), img1.width * img1.height))

similarityOf(img1, img2) ==
  IF img1.width # img2.width \/ img1.height # img2.height
  THEN Str("Size mismatch")
  ELSE LET totalPixels == img1.width * img1.height
           mismatchedPixels == pixelmatch(img1, img2)
           matchedPixels == totalPixels - mismatchedPixels
       IN Num(Percentage(matchedPixels, totalPixels))

\* ------------------------------------------------------------ the loop

\* results.push(...)
pushDropErrors(res, r) ==
  IF r.similarityPercentage = Str("Error") THEN res ELSE Append(res, r)

push(res, r) == Append(res, r)

\* The for loop moves to the next page, or ends.
NextPageReportInLoop ==
  /\ i' = i + 1
  /\ pc' = "report"

NextPage ==
  /\ i' = i + 1
  /\ pc' = IF i + 1 > Len(urls) THEN "report" ELSE "captureStaging"

\* captureScreenshot(page, url, screenshotPath): goto and screenshot succeed and
\* the file is written, or one of them throws and the catch logs the message.
captureScreenshotNotAwaited(env, screenshotPath) ==
  UNCHANGED <<fs, written, console>>

captureScreenshot(env, screenshotPath) ==
  \/ \E shot \in Screens :
       /\ fs' = [fs EXCEPT ![screenshotPath] = shot]
       /\ written' = [written EXCEPT ![screenshotPath] = @ + 1]
       /\ UNCHANGED console
  \/ \E message \in CaptureErrors :
       /\ console' = console \cup
            {[env |-> env, pagePath |-> pagePath, message |-> message]}
       /\ UNCHANGED <<fs, written>>

CaptureStaging ==
  /\ pc = "captureStaging"
  /\ captureScreenshot("staging", stagingScreenshotPath(pagePath))
  /\ pc' = "captureProd"
  /\ UNCHANGED <<urls, results, i, report, testStatus>>

CaptureProd ==
  /\ pc = "captureProd"
  /\ captureScreenshot("prod", prodScreenshotPath(pagePath))
  /\ pc' = "compare"
  /\ UNCHANGED <<urls, results, i, report, testStatus>>

\* The catch of the loop body: the page's result is "Error" with the message.
Catch(message) ==
  /\ results' = push(results, [pagePath |-> pagePath,
                               similarityPercentage |-> Str("Error"),
                               error |-> Str(message)])
  /\ NextPage

\* compareScreenshots returns; the loop body pushes what it returned.
Return(similarity) ==
  /\ results' = push(results, [pagePath |-> pagePath,
                               similarityPercentage |-> similarity,
                               error |-> Undefined])
  /\ NextPage

\* compareScreenshots: a capture file is missing.
CompareMissing ==
  /\ pc = "compare"
  /\ \/ ~existsSync(fs, stagingScreenshotPath(pagePath))
     \/ ~existsSync(fs, prodScreenshotPath(pagePath))
  /\ Return(Str("Error"))
  /\ UNCHANGED <<urls, fs, written, console, report, testStatus>>

\* resizeImage(imagePath, 1280, 800): the file is read, resized and written
\* back, or reading or resizing throws.
resizeImage(imagePath, nextPc) ==
  \/ /\ fs' = [fs EXCEPT ![imagePath] = resize(@, CanvasWidth, CanvasHeight)]
     /\ written' = [written EXCEPT ![imagePath] = @ + 1]
     /\ pc' = nextPc
     /\ UNCHANGED <<results, i>>
  \/ \E message \in ResizeErrors :
       /\ Catch(message)
       /\ UNCHANGED <<fs, written>>

ResizeBaseline ==
  /\ pc = "compare"
  /\ existsSync(fs, stagingScreenshotPath(pagePath))
  /\ existsSync(fs, prodScreenshotPath(pagePath))
  /\ resizeImage(stagingScreenshotPath(pagePath), "resizeCurrent")
  /\ UNCHANGED <<urls, console, report, testStatus>>

ResizeCurrent ==
  /\ pc = "resizeCurrent"
  /\ resizeImage(prodScreenshotPath(pagePath), "diff")
  /\ UNCHANGED <<urls, console, report, testStatus>>

\* compareScreenshots after the two resizes: decode, dimension check, diff
\* mask, percentage; or decoding, pixelmatch or the write throws.
Diff ==
  /\ pc = "diff"
  /\ LET img1 == fs[stagingScreenshotPath(pagePath)]
         img2 == fs[prodScreenshotPath(pagePath)]
         similarity == similarityOf(img1, img2)
     IN \/ /\ IF typeof(similarity) = "number"
              THEN /\ fs' = [fs EXCEPT ![diffScreenshotPath(pagePath)] =
                               Raster(img1.width, img1.height, pixelmatch(img1, img2))]
                   /\ written' = [written EXCEPT ![diffScreenshotPath(pagePath)] = @ + 1]
              ELSE UNCHANGED <<fs, written>>
           /\ Return(similarity)
        \/ \E message \in DiffErrors :
             /\ Catch(message)
             /\ UNCHANGED <<fs, written>>
  /\ UNCHANGED <<urls, console, report, testStatus>>

\* ------------------------------------------------------------ the report

\* The comparator handed to results.sort.
comparatorNoErrorFirst(a, b) ==
  IF typeof(a.similarityPercentage) = "number"
     /\ typeof(b.similarityPercentage) = "number"
  THEN a.similarityPercentage.num - b.similarityPercentage.num
  ELSE 0

comparator(a, b) ==
  IF a.similarityPercentage = Str("Error") THEN -1
  ELSE IF b.similarityPercentage = Str("Error") THEN 1
  ELSE IF typeof(a.similarityPercentage) = "number"
          /\ typeof(b.similarityPercentage) = "number"
  THEN a.similarityPercentage.num - b.similarityPercentage.num
  ELSE 0

\* Array.prototype.sort as Node's V8 runs it on an array shorter than 64: one
\* run is counted at the start of the array (and reversed when it descends),
\* then every later element is placed by binary insertion.
RECURSIVE ExtendRun(_, _, _)
ExtendRun(workArray, runLength, isDescending) ==
  IF runLength = Len(workArray) THEN runLength
  ELSE LET order == comparator(workArray[runLength + 1], workArray[runLength])
       IN IF (isDescending /\ order >= 0) \/ (~isDescending /\ order < 0)
          THEN runLength
          ELSE ExtendRun(workArray, runLength + 1, isDescending)

CountAndMakeRun(workArray) ==
  LET isDescending == comparator(workArray[2], workArray[1]) < 0
      runLength == ExtendRun(workArray, 2, isDescending)
  IN [runLength |-> runLength,
      workArray |-> [k \in 1..Len(workArray) |->
                       IF isDescending /\ k <= runLength
                       THEN workArray[runLength + 1 - k]
                       ELSE workArray[k]]]

\* Indices left, right and start count from 0, as in the engine.
RECURSIVE BinarySearch(_, _, _, _)
BinarySearch(workArray, pivot, left, right) ==
  IF left >= right THEN left
  ELSE LET mid == left + ((right - left) \div 2)
           order == comparator(pivot, workArray[mid + 1])
       IN IF order < 0
          THEN BinarySearch(workArray, pivot, left, mid)
          ELSE BinarySearch(workArray, pivot, mid + 1, right)

RECURSIVE BinaryInsertionSort(_, _)
BinaryInsertionSort(workArray, start) ==
  IF start >= Len(workArray) THEN workArray
  ELSE LET pivot == workArray[start + 1]
           left == BinarySearch(workArray, pivot, 0, start)
       IN BinaryInsertionSort(
            [k \in 1..Len(workArray) |->
               IF k - 1 < left THEN workArray[k]
               ELSE IF k - 1 = left THEN pivot
               ELSE IF k - 1 <= start THEN workArray[k - 1]
               ELSE workArray[k]],
            start + 1)

\* results.sort(comparator)
sort(array) ==
  IF Len(array) < 2 THEN array
  ELSE LET run == CountAndMakeRun(array)
       IN BinaryInsertionSort(run.workArray, run.runLength)

\* The summary counts.
passedCountStrict(res) ==
  Cardinality({k \in DOMAIN res :
     /\ typeof(res[k].similarityPercentage) = "number"
     /\ res[k].similarityPercentage.num > PassThreshold * PctScale})

passedCount(res) ==
  Cardinality({k \in DOMAIN res :
     /\ typeof(res[k].similarityPercentage) = "number"
     /\ res[k].similarityPercentage.num >= PassThreshold * PctScale})

failedCount(res) ==
  Cardinality({k \in DOMAIN res :
     /\ typeof(res[k].similarityPercentage) = "number"
     /\ res[k].similarityPercentage.num < PassThreshold * PctScale})

errorsCount(res) ==
  Cardinality({k \in DOMAIN res : res[k].similarityPercentage = Str("Error")})

\* statusText of a row.
statusTextStrict(result) ==
  IF typeof(result.similarityPercentage) = "number"
  THEN IF result.similarityPercentage.num > PassThreshold * PctScale
       THEN "Pass" ELSE "Fail"
  ELSE "Error"

statusText(result) ==
  IF typeof(result.similarityPercentage) = "number"
  THEN IF result.similarityPercentage.num >= PassThreshold * PctScale
       THEN "Pass" ELSE "Fail"
  ELSE "Error"

\* similarityPercentage.toFixed(2), in hundredths of a percent.
toFixed2(num) == (num * 100 + PctScale \div 2) \div PctScale

\* The similarity cell of a row: the percentage with two decimals, or "Error".
similarityCell(result) ==
  IF typeof(result.similarityPercentage) = "number"
  THEN Num(toFixed2(result.similarityPercentage.num))
  ELSE Str("Error")

\* imageToBase64(imagePath): the file's data, or null (NoFile) when missing.
imageToBase64(files, imagePath) ==
  IF existsSync(files, imagePath) THEN files[imagePath] ELSE NoFile

\* One <tr> of the report.
Row(files, result) ==
  [pagePath |-> result.pagePath,
   similarity |-> similarityCell(result),
   statusText |-> statusText(result),
   staging |-> imageToBase64(files, ScreenshotPath("staging", result.pagePath)),
   prod |-> imageToBase64(files, ScreenshotPath("prod", result.pagePath)),
   diff |-> imageToBase64(files, ScreenshotPath("diff", result.pagePath))]

\* generateHtmlReport(results, deviceName): counts, sorts results in place,
\* renders one row per result and writes the report.
GenerateHtmlReport ==
  /\ pc = "report"
  /\ LET sorted == sort(results)
     IN /\ results' = sorted
        /\ report' = [exists |-> TRUE,
                      passed |-> passedCount(results),
                      failed |-> failedCount(results),
                      errors |-> errorsCount(results),
                      rows |-> [k \in DOMAIN sorted |-> Row(fs, sorted[k])]]
  /\ pc' = "close"
  /\ UNCHANGED <<urls, fs, written, console, i, testStatus>>

\* await context.close(); the test function returns without having thrown.
Close ==
  /\ pc = "close"
  /\ pc' = "done"
  /\ testStatus' = "passed"
  /\ UNCHANGED <<urls, fs, written, console, results, i, report>>

Next ==
  \/ CaptureStaging
  \/ CaptureProd
  \/ CompareMissing
  \/ ResizeBaseline
  \/ ResizeCurrent
  \/ Diff
  \/ GenerateHtmlReport
  \/ Close

Spec == Init /\ [][Next]_vars

\* The single worker runs the test function for as long as it has a step to take.
FairSpec == Spec /\ WF_vars(Next)

\* ------------------------------------------------------------ the report alone

\* Outcomes of a page that generateHtmlReport is given: "Error" and percentages
\* on both sides of the threshold (40, 95 less one pixel, 95, 98, 99).
ReportOutcomes ==
  { Str("Error"),
    Num(40 * PctScale),
    Num(PassThreshold * PctScale - 1),
    Num(PassThreshold * PctScale),
    Num(98 * PctScale),
    Num(99 * PctScale) }

\* The state in which generateHtmlReport is called, for every result array of
\* up to MaxResults pages: a scored page has its three files, a page in error
\* has none.
ReportInit ==
  /\ \E n \in 1..MaxResults :
       /\ urls = SubSeq(ConfigUrls, 1, n)
       /\ \E outcome \in [1..n -> ReportOutcomes] :
            /\ results = [k \in 1..n |-> [pagePath |-> ConfigUrls[k],
                                          similarityPercentage |-> outcome[k],
                                          error |-> Undefined]]
            /\ fs = [f \in FilePaths |->
                       IF \E k \in 1..n : /\ f.name = ReplaceSlashes(ConfigUrls[k])
                                          /\ typeof(outcome[k]) = "number"
                       THEN OldCapture ELSE NoFile]
       /\ i = n + 1
  /\ written = [f \in FilePaths |-> 0]
  /\ console = {}
  /\ pc = "report"
  /\ report = NoReport
  /\ testStatus = "running"

ReportNext ==
  \/ GenerateHtmlReport
  \/ Close

ReportSpec == ReportInit /\ [][ReportNext]_vars

\* ------------------------------------------------------------ any page list

\* Characters of a page path: the separator, the character that replaces it,
\* and a letter.
PathChars == {"/", "_", "a"}

\* Page paths of up to MaxPathLen characters; a page path starts with "/".
RECURSIVE PathsOfLen(_)
PathsOfLen(n) ==
  IF n = 1 THEN {<<"/">>}
  ELSE {Append(p, c) : p \in PathsOfLen(n - 1), c \in PathChars}

InputPaths == UNION {PathsOfLen(n) : n \in 1..MaxPathLen}

\* The run on a list of two distinct page paths, with directories that hold no
\* file yet.
PathInit ==
  /\ \E p, q \in InputPaths : p # q /\ urls = <<p, q>>
  /\ fs = [f \in {ScreenshotPath(d, p) : d \in Dirs, p \in InputPaths} |-> NoFile]
  /\ written = [f \in {ScreenshotPath(d, p) : d \in Dirs, p \in InputPaths} |-> 0]
  /\ console = {}
  /\ results = <<>>
  /\ i = 1
  /\ pc = "captureStaging"
  /\ report = NoReport
  /\ testStatus = "running"

PathSpec == PathInit /\ [][Next]_vars

\* ------------------------------------------------------------ claims

Sign(n) == IF n < 0 THEN -1 ELSE IF n > 0 THEN 1 ELSE 0

LoopEnded == pc \in {"report", "close", "done"}

\* The result recorded for a page path (results holds one per page, C3).
ResultsOf(p) == {k \in DOMAIN results : results[k].pagePath = p}

\* A capture of the page failed in this run: captureScreenshot logged it.
CaptureFailed(p) == \E c \in console : c.pagePath = p

IsErrorResult(r) == r.similarityPercentage = Str("Error")

IsScored(r) == typeof(r.similarityPercentage) = "number"

\* C1 (as claimed): when the loop has ended, results holds one result per
\* listed page, whatever failed on the way, and every page with a failed
\* capture or a thrown exception is recorded with the outcome "Error".
C1_Isolation ==
  LoopEnded =>
    /\ Len(results) = Len(urls)
    /\ \A k \in 1..Len(urls) :
         /\ Cardinality(ResultsOf(urls[k])) = 1
         /\ CaptureFailed(urls[k]) =>
              \A j \in ResultsOf(urls[k]) : IsErrorResult(results[j])

\* C2 (as claimed): a page one of whose captures failed in this run has the
\* outcome "Error", and nothing was normalized or diffed for it: its diff mask
\* was not written and its capture files were written by a capture at most.
C2_FailedCaptureIsError ==
  \A k \in DOMAIN results :
    CaptureFailed(results[k].pagePath) =>
      /\ IsErrorResult(results[k])
      /\ written[diffScreenshotPath(results[k].pagePath)] = 0
      /\ written[stagingScreenshotPath(results[k].pagePath)]
           + written[prodScreenshotPath(results[k].pagePath)] <= 1

\* C3: when the report is assembled, results holds exactly one result for
\* every page of the list, every result is either a percentage (and carries no
\* error) or an error marker, and the report has exactly one row per page.
C3_OneResultPerPage ==
  /\ LoopEnded =>
       /\ Len(results) = Len(urls)
       /\ \A k \in 1..Len(urls) : Cardinality(ResultsOf(urls[k])) = 1
       /\ \A k \in DOMAIN results :
            /\ IsScored(results[k])
                 # (results[k].similarityPercentage \in {Str("Error"), Str("Size mismatch")})
            /\ IsScored(results[k]) => results[k].error = Undefined
  /\ report.exists =>
       /\ Len(report.rows) = Len(urls)
       /\ \A k \in 1..Len(urls) :
            Cardinality({j \in DOMAIN report.rows : report.rows[j].pagePath = urls[k]}) = 1

\* C3 witness: a run of two pages is over, one page scored and one in error.
C3_Witness ==
  /\ pc = "done"
  /\ Len(urls) = 2
  /\ \E j, k \in DOMAIN results : IsScored(results[j]) /\ IsErrorResult(results[k])
  /\ Len(report.rows) = 2

C5_ComparatorConsistent ==
  /\ \A a, b \in Range(results) :
       /\ Sign(comparator(a, b)) = -Sign(comparator(b, a))
       /\ IsErrorResult(a) /\ IsErrorResult(b) => comparator(a, b) = 0
       /\ a.similarityPercentage = b.similarityPercentage => comparator(a, b) = 0
       /\ \A c \in Range(results) :
            comparator(a, b) <= 0 /\ comparator(b, c) <= 0 => comparator(a, c) <= 0
  /\ report.exists =>
       \A j, k \in DOMAIN urls :
         /\ j < k
         /\ \E a \in ResultsOf(urls[j]), b \in ResultsOf(urls[k]) :
              results[a].similarityPercentage = results[b].similarityPercentage
         => \A a \in ResultsOf(urls[j]), b \in ResultsOf(urls[k]) : a < b

\* C6: every row has exactly one status: Pass for a percentage of 95 or more,
\* Fail for a percentage below 95, Error for an outcome that is no number.
C6_Classification ==
  report.exists =>
    \A k \in DOMAIN report.rows :
      LET r == results[k]
          status == report.rows[k].statusText
      IN /\ report.rows[k].pagePath = r.pagePath
         /\ status \in {"Pass", "Fail", "Error"}
         /\ status = "Pass" <=>
              IsScored(r) /\ r.similarityPercentage.num >= PassThreshold * PctScale
         /\ status = "Fail" <=>
              IsScored(r) /\ r.similarityPercentage.num < PassThreshold * PctScale
         /\ status = "Error" <=> ~IsScored(r)

\* C6 witness: a report with a Pass row of exactly 95%, a Fail row one pixel
\* below 95% and an Error row.
C6_Witness ==
  /\ report.exists
  /\ \E j, k, l \in DOMAIN report.rows :
       /\ results[j].similarityPercentage = Num(PassThreshold * PctScale)
       /\ report.rows[j].statusText = "Pass"
       /\ results[k].similarityPercentage = Num(PassThreshold * PctScale - 1)
       /\ report.rows[k].statusText = "Fail"
       /\ IsErrorResult(results[l])
       /\ report.rows[l].statusText = "Error"

\* C7 (as claimed): the test ends failed exactly when some row of the report
\* is Fail or Error, and passed when every row is Pass.
C7_ExitStatusReflectsReport ==
  pc = "done" =>
    (testStatus = "failed" <=>
       \E k \in DOMAIN report.rows : report.rows[k].statusText \in {"Fail", "Error"})

\* C8 (as claimed): a diff file exists for a page, and a diff image is embedded
\* in its row, only when the page's outcome in this run is a percentage.
C8_DiffOnlyWhenScored ==
  /\ \A k \in DOMAIN results :
       existsSync(fs, diffScreenshotPath(results[k].pagePath)) => IsScored(results[k])
  /\ report.exists =>
       \A k \in DOMAIN report.rows : report.rows[k].diff.exists => IsScored(results[k])

\* C9 (as claimed): every "Error" result carries the message of the failure
\* that caused it, and its report row shows that message.
C9_ErrorCarriesReason ==
  \A k \in DOMAIN results :
    IsErrorResult(results[k]) =>
      /\ typeof(results[k].error) = "string"
      /\ \A c \in console :
           c.pagePath = results[k].pagePath => results[k].error = Str(c.message)
      /\ report.exists => report.rows[k].similarity = results[k].error

\* C10 (as claimed): in one run no artifact file is written more than once.
C10_WriteOnce == \A f \in FilePaths : written[f] <= 1

\* C10 (amended): in one run the diff file of a page is written at most once
\* and each of its staging and prod files at most twice, by the capture and by
\* the resize that overwrites it.
C10_WriteBounds ==
  \A f \in FilePaths :
    /\ f.dir = "diff" => written[f] <= 1
    /\ f.dir \in {"staging", "prod"} => written[f] <= 2

\* C10 witness: a page was captured, resized in place and diffed: its capture
\* files were written twice each and its diff file once.
C10_Witness ==
  /\ pc = "done"
  /\ \E k \in 1..Len(urls) :
       /\ written[stagingScreenshotPath(urls[k])] = 2
       /\ written[prodScreenshotPath(urls[k])] = 2
       /\ written[diffScreenshotPath(urls[k])] = 1

\* C11 (as claimed): two distinct page paths of a run have distinct sanitized
\* names, hence distinct staging, prod and diff files.
C11_SanitizedNamesDistinct ==
  \A j, k \in DOMAIN urls :
    urls[j] # urls[k] =>
      /\ ReplaceSlashes(urls[j]) # ReplaceSlashes(urls[k])
      /\ stagingScreenshotPath(urls[j]) # stagingScreenshotPath(urls[k])
      /\ prodScreenshotPath(urls[j]) # prodScreenshotPath(urls[k])
      /\ diffScreenshotPath(urls[j]) # diffScreenshotPath(urls[k])

\* A capture of the page timed out in this run.
TimedOut(p) == \E c \in console : c.pagePath = p /\ c.message \in CaptureErrors

\* C12 (as claimed): a capture that times out gives its page the outcome
\* "Error" and never hangs the run: the test always has a next step until it
\* is done, and when it is done every page has its result and the report is
\* written.
C12_TimeoutIsErrorAndRunEnds ==
  /\ \A k \in DOMAIN results : TimedOut(results[k].pagePath) => IsErrorResult(results[k])
  /\ pc = "done" \/ ENABLED Next
  /\ pc = "done" => report.exists /\ Len(results) = Len(urls)

\* The termination part of C12 alone: under fair scheduling the run ends with
\* one result per page and the report written.
C12_Terminates ==
  <>(pc = "done" /\ report.exists /\ Len(results) = Len(urls))

\* C13: the percentage of every scored result is (totalPixels -
\* mismatchedPixels) / totalPixels * 100 for the mismatched pixels of its two
\* files (the count its diff mask shows), with 0 <= mismatchedPixels <=
\* totalPixels, so it lies in [0, 100]; two identical files give no mismatched
\* pixel and exactly 100.
C13_PercentageFormula ==
  \A k \in DOMAIN results :
    IsScored(results[k]) =>
      LET img1 == fs[stagingScreenshotPath(results[k].pagePath)]
          img2 == fs[prodScreenshotPath(results[k].pagePath)]
          mask == fs[diffScreenshotPath(results[k].pagePath)]
          totalPixels == img1.width * img1.height
          pct == results[k].similarityPercentage.num
      IN /\ mask.exists
         /\ 0 <= mask.px /\ mask.px <= totalPixels
         /\ pct * (totalPixels \div PctScale) = (totalPixels - mask.px) * 100
         /\ 0 <= pct /\ pct <= 100 * PctScale
         /\ img1 = img2 => mask.px = 0 /\ pct = 100 * PctScale
         /\ img1.px # img2.px => mask.px > 0 /\ pct < 100 * PctScale

\* C13 witness: the run is over with one page whose two files are identical,
\* scored 100, and one page whose files differ, scored below 100.
C13_Witness ==
  /\ pc = "done"
  /\ \E j, k \in DOMAIN results :
       /\ IsScored(results[j])
       /\ fs[stagingScreenshotPath(results[j].pagePath)]
            = fs[prodScreenshotPath(results[j].pagePath)]
       /\ results[j].similarityPercentage = Num(100 * PctScale)
       /\ IsScored(results[k])
       /\ results[k].similarityPercentage.num < 100 * PctScale

\* The capture of page p in environment env has completed: it wrote its file
\* or it failed and was logged.
CaptureDone(env, p) ==
  \/ written[ScreenshotPath(env, p)] >= 1
  \/ \E c \in console : c.env = env /\ c.pagePath = p

\* Nothing of page p has happened yet in this run.
Untouched(p) ==
  /\ \A d \in Dirs : written[ScreenshotPath(d, p)] = 0
  /\ ~CaptureFailed(p)
  /\ ResultsOf(p) = {}

\* C14: while the loop is at page i, the pages before i (and only they) have
\* their result and no later page has been touched; the prod capture starts
\* only when the staging capture has completed, and resizing and diffing of
\* the page start only when both captures have completed.
C14_Sequential ==
  /\ ~LoopEnded =>
       /\ Len(results) = i - 1
       /\ \A k \in 1..(i - 1) : results[k].pagePath = urls[k]
       /\ \A k \in (i + 1)..Len(urls) : Untouched(urls[k])
       /\ pc = "captureStaging" => Untouched(pagePath)
       /\ pc = "captureProd" =>
            /\ CaptureDone("staging", pagePath)
            /\ ~CaptureDone("prod", pagePath)
       /\ pc \in {"captureStaging", "captureProd"} =>
            /\ written[stagingScreenshotPath(pagePath)] <= 1
            /\ written[diffScreenshotPath(pagePath)] = 0
       /\ pc \in {"compare", "resizeCurrent", "diff"} =>
            /\ CaptureDone("staging", pagePath)
            /\ CaptureDone("prod", pagePath)
  /\ LoopEnded => Len(results) = Len(urls)

\* C14 witness: the loop is about to capture the second page; the first page
\* has been captured twice, resized, diffed and scored.
C14_Witness ==
  /\ pc = "captureStaging"
  /\ i = 2
  /\ IsScored(results[1])
  /\ written[stagingScreenshotPath(urls[1])] = 2
  /\ written[prodScreenshotPath(urls[1])] = 2
  /\ written[diffScreenshotPath(urls[1])] = 1
  /\ Untouched(urls[2])

\* C15: the report is written once, when every page of the list has its
\* result; after it is written no file is written, nothing is captured or
\* logged and the results and the report stay as they are; a finished run
\* has written it.
C15_ReportOnceAndLast ==
  /\ [](pc = "done" => report.exists)
  /\ [][ /\ report' # report =>
              /\ ~report.exists
              /\ report'.exists
              /\ Len(results) = Len(urls)
              /\ \A k \in 1..Len(urls) : Cardinality(ResultsOf(urls[k])) = 1
         /\ report.exists =>
              /\ report' = report
              /\ fs' = fs
              /\ written' = written
              /\ console' = console
              /\ results' = results ]_vars

\* C15 witness: a run of two pages is done, a diff mask was written during the
\* loop and the report holds the two rows.
C15_Witness ==
  /\ pc = "done"
  /\ report.exists
  /\ Len(report.rows) = 2
  /\ \E k \in 1..Len(urls) : written[diffScreenshotPath(urls[k])] = 1

\* C16 (as claimed): generateHtmlReport leaves the results array of its caller
\* as it was (same records, same order) and neither captures nor diffs: it
\* writes no artifact file and logs no capture.
C16_AssemblerOnlyReads ==
  [][ pc = "report" =>
        /\ results' = results
        /\ fs' = fs
        /\ written' = written
        /\ console' = console ]_vars

IsCanvas(img) == img.exists /\ img.width = CanvasWidth /\ img.height = CanvasHeight

\* C17: no page ends in "Size mismatch": once a file has been resized it is
\* 1280x800, so the dimension check of compareScreenshots compares two
\* 1280x800 rasters, whatever the sizes of the captures were.
C17_NoSizeMismatch ==
  /\ \A k \in DOMAIN results : results[k].similarityPercentage # Str("Size mismatch")
  /\ pc = "resizeCurrent" => IsCanvas(fs[stagingScreenshotPath(pagePath)])
  /\ pc = "diff" =>
       /\ IsCanvas(fs[stagingScreenshotPath(pagePath)])
       /\ IsCanvas(fs[prodScreenshotPath(pagePath)])
       /\ typeof(similarityOf(fs[stagingScreenshotPath(pagePath)],
                              fs[prodScreenshotPath(pagePath)])) = "number"

\* C17 witness: a page whose staging capture was 1280x1600 (51201 dark pixels
\* once resized) and whose prod capture was 1280x800 has been scored.
C17_Witness ==
  /\ pc = "done"
  /\ \E k \in DOMAIN results :
       /\ IsScored(results[k])
       /\ ~CaptureFailed(results[k].pagePath)
       /\ fs[stagingScreenshotPath(results[k].pagePath)]
            = Raster(CanvasWidth, CanvasHeight, 51201)
       /\ fs[prodScreenshotPath(results[k].pagePath)]
            = Raster(CanvasWidth, CanvasHeight, 0)

RowsWithStatus(status) ==
  {k \in DOMAIN report.rows : report.rows[k].statusText = status}

====
